---- MODULE Spec2Model ----
(***************************************************************************)
(* Model of Skills/GPUs/Part0-Introduction.ipynb: one execution of the    *)
(* notebook's two code cells against the numba.cuda library.              *)
(*                                                                         *)
(* Cell 5 (source lines 93-109) prints a host banner, asks                *)
(* cuda.is_available() and either prints one line per device returned by  *)
(* cuda.list_devices() or a fixed "no device" message.                    *)
(* Cell 7 (source lines 135-141) calls cuda.select_device(0) and prints   *)
(* one of two messages after comparing the compute capability tuple.      *)
(*                                                                         *)
(* The library and the hardware are the environment: the host name, the   *)
(* answer of is_available() and the list of GPUs the driver exposes are   *)
(* chosen in Init.  list_devices() returns that list, select_device(0)    *)
(* returns its first element and raises when there is none.               *)
(*                                                                         *)
(* A Python str is the sequence of its code points and a bytes object the  *)
(* sequence of its bytes, so that bytes.decode() is UTF-8 decoding, with   *)
(* UnicodeDecodeError as one of its results.  The names the environment    *)
(* offers are ASCII, which is what the CUDA driver reports.                *)
(***************************************************************************)
EXTENDS Integers, Sequences, FiniteSets, TLC

VARIABLES
    node,           \* result of platform.node()
    is_available,   \* result of cuda.is_available()
    gpus,           \* devices the CUDA driver exposes, device 0 first
    pc,             \* position of the notebook kernel
    stdout,         \* lines printed so far: [cell, args]
    devices_iter,   \* devices the for loop of cell 5 has still to visit
    my_instance,    \* <<>> while unbound, <<device>> once select_device returned
    calls           \* how often each library function has been called

vars == <<node, is_available, gpus, pc, stdout, devices_iter, my_instance, calls>>

----------------------------------------------------------------------------
(* Bounds of the environment *)

MaxDevices == 2
MaxMajor == 3
MaxMinor == 1

(* Literals of the source *)

MinMajor == 2
MinMinor == 1
DeviceIndex == 0
AvailabilityCell == "availability"
CapabilityCell == "capability"

\* 56 times "="
Rule ==
    <<61, 61, 61, 61, 61, 61, 61, 61, 61, 61, 61, 61, 61, 61, 61, 61, 61,
      61, 61, 61, 61, 61, 61, 61, 61, 61, 61, 61, 61, 61, 61, 61, 61, 61,
      61, 61, 61, 61, 61, 61, 61, 61, 61, 61, 61, 61, 61, 61, 61, 61, 61,
      61, 61, 61, 61, 61>>

\* "This notebook is running on "
RunningOn ==
    <<84, 104, 105, 115, 32, 110, 111, 116, 101, 98, 111, 111, 107, 32, 105,
      115, 32, 114, 117, 110, 110, 105, 110, 103, 32, 111, 110, 32>>

\* "Device ID : "
DeviceIdLabel ==
    <<68, 101, 118, 105, 99, 101, 32, 73, 68, 32, 58, 32>>

\* " : "
Colon ==
    <<32, 58, 32>>

\* "There doesn't appear to be a CUDA capable device in this system"
NoDeviceMessage ==
    <<84, 104, 101, 114, 101, 32, 100, 111, 101, 115, 110, 39, 116, 32, 97,
      112, 112, 101, 97, 114, 32, 116, 111, 32, 98, 101, 32, 97, 32, 67, 85,
      68, 65, 32, 99, 97, 112, 97, 98, 108, 101, 32, 100, 101, 118, 105, 99,
      101, 32, 105, 110, 32, 116, 104, 105, 115, 32, 115, 121, 115, 116,
      101, 109>>

\* "The selected device ("
SelectedOpen ==
    <<84, 104, 101, 32, 115, 101, 108, 101, 99, 116, 101, 100, 32, 100, 101,
      118, 105, 99, 101, 32, 40>>

\* ") has a sufficient compute capability"
SufficientClose ==
    <<41, 32, 104, 97, 115, 32, 97, 32, 115, 117, 102, 102, 105, 99, 105,
      101, 110, 116, 32, 99, 111, 109, 112, 117, 116, 101, 32, 99, 97, 112,
      97, 98, 105, 108, 105, 116, 121>>

\* "The selected device does not have a sufficient compute capability"
InsufficientMessage ==
    <<84, 104, 101, 32, 115, 101, 108, 101, 99, 116, 101, 100, 32, 100, 101,
      118, 105, 99, 101, 32, 100, 111, 101, 115, 32, 110, 111, 116, 32, 104,
      97, 118, 101, 32, 97, 32, 115, 117, 102, 102, 105, 99, 105, 101, 110,
      116, 32, 99, 111, 109, 112, 117, 116, 101, 32, 99, 97, 112, 97, 98,
      105, 108, 105, 116, 121>>

----------------------------------------------------------------------------
(* Python built-ins used by the cells *)

\* UTF-8: the length of the sequence a byte leads, 0 when it leads none
Utf8Length(b) ==
    IF b < 128 THEN 1
    ELSE IF b >= 194 /\ b <= 223 THEN 2
    ELSE IF b >= 224 /\ b <= 239 THEN 3
    ELSE IF b >= 240 /\ b <= 244 THEN 4
    ELSE 0

Continuation(b) == b >= 128 /\ b <= 191

\* UTF-8: the n bytes from position i on are a sequence its lead byte allows
\* (no overlong form, no surrogate, nothing above U+10FFFF)
WellFormed(bytes, i, n) ==
    /\ n >= 1
    /\ i + n - 1 <= Len(bytes)
    /\ n >= 2 =>
          /\ Continuation(bytes[i + 1])
          /\ bytes[i] = 224 => bytes[i + 1] >= 160
          /\ bytes[i] = 237 => bytes[i + 1] <= 159
          /\ bytes[i] = 240 => bytes[i + 1] >= 144
          /\ bytes[i] = 244 => bytes[i + 1] <= 143
    /\ n >= 3 => Continuation(bytes[i + 2])
    /\ n >= 4 => Continuation(bytes[i + 3])

\* UTF-8: the code point of the well-formed sequence of n bytes at position i
CodePoint(bytes, i, n) ==
    IF n = 1 THEN bytes[i]
    ELSE IF n = 2 THEN (bytes[i] - 192) * 64 + (bytes[i + 1] - 128)
    ELSE IF n = 3 THEN
        (bytes[i] - 224) * 4096 + (bytes[i + 1] - 128) * 64 + (bytes[i + 2] - 128)
    ELSE (bytes[i] - 240) * 262144 + (bytes[i + 1] - 128) * 4096
            + (bytes[i + 2] - 128) * 64 + (bytes[i + 3] - 128)

\* the positions where a character starts: UTF-8 is self-synchronising, a
\* character starts at every byte that is not a continuation byte
Leads(bytes) == { i \in 1..Len(bytes) : ~Continuation(bytes[i]) }

\* the bytes are UTF-8: every byte that is not a continuation byte leads a
\* well-formed sequence, and every continuation byte belongs to one
Utf8Valid(bytes) ==
    /\ \A i \in Leads(bytes) :
          /\ WellFormed(bytes, i, Utf8Length(bytes[i]))
          /\ i + Utf8Length(bytes[i]) <= Len(bytes)
                => (i + Utf8Length(bytes[i])) \in Leads(bytes)
    /\ bytes # <<>> => 1 \in Leads(bytes)

\* for each position, the code point of the character that starts there,
\* -1 at a continuation byte
CodePoints(bytes) ==
    [i \in 1..Len(bytes) |->
        IF Continuation(bytes[i]) THEN -1
        ELSE CodePoint(bytes, i, Utf8Length(bytes[i]))]

StartsCharacter(c) == c >= 0

\* bytes.decode(): the str the bytes encode in UTF-8; raised is TRUE when
\* they encode none and the call raises UnicodeDecodeError
decode(bytes) ==
    IF Utf8Valid(bytes)
    THEN [raised |-> FALSE, text |-> SelectSeq(CodePoints(bytes), StartsCharacter)]
    ELSE [raised |-> TRUE, text |-> <<>>]

RECURSIVE str(_)
\* str() of an int argument of print: its decimal digits
str(n) ==
    IF n < 0 THEN <<45>> \o str(-n)
    ELSE IF n < 10 THEN <<48 + n>>
    ELSE str(n \div 10) \o <<48 + (n % 10)>>

RECURSIVE Text(_)
\* the line print() writes for its arguments: joined by single spaces
Text(args) ==
    IF args = <<>> THEN <<>>
    ELSE IF Len(args) = 1 THEN args[1]
    ELSE args[1] \o <<32>> \o Text(Tail(args))

Line(cell, args) == [cell |-> cell, args |-> args]

----------------------------------------------------------------------------
(* The environment *)

\* "ridcully", the host of the saved output
HostNames ==
    { <<114, 105, 100, 99, 117, 108, 108, 121>> }

\* b"GeForce GT 710", b"Tesla K40"
DeviceNames ==
    { <<71, 101, 70, 111, 114, 99, 101, 32, 71, 84, 32, 55, 49, 48>>,
      <<84, 101, 115, 108, 97, 32, 75, 52, 48>> }

Capabilities == (1..MaxMajor) \X (0..MaxMinor)

Hardware == [name : DeviceNames, compute_capability : Capabilities]

\* the driver numbers the devices 0, 1, ... in the order it lists them
Enumerate(hw) ==
    [i \in 1..Len(hw) |->
        [id |-> i - 1, name |-> hw[i].name,
         compute_capability |-> hw[i].compute_capability]]

DeviceLists ==
    { Enumerate(hw) : hw \in UNION { [1..n -> Hardware] : n \in 0..MaxDevices } }

----------------------------------------------------------------------------
(* What the cells print *)

Banner(host) ==
    << Line(AvailabilityCell, <<Rule>>),
       Line(AvailabilityCell, <<RunningOn, host>>),
       Line(AvailabilityCell, <<Rule>>) >>

DeviceLine(device) ==
    Line(AvailabilityCell,
         <<DeviceIdLabel, str(device.id), Colon, decode(device.name).text>>)

NoDeviceLine == Line(AvailabilityCell, <<NoDeviceMessage>>)

SufficientLine(instance) ==
    Line(CapabilityCell, <<SelectedOpen, decode(instance.name).text, SufficientClose>>)

InsufficientLine == Line(CapabilityCell, <<InsufficientMessage>>)

\* a comparison of the tuple in version order against (2, 1)
Sufficient_VersionOrder(cc) ==
    cc[1] > MinMajor \/ (cc[1] = MinMajor /\ cc[2] >= MinMinor)

\* the condition of the if statement of cell 7
Sufficient(cc) == cc[1] >= MinMajor /\ cc[2] >= MinMinor

----------------------------------------------------------------------------
Init ==
    /\ node \in HostNames
    /\ is_available \in BOOLEAN
    /\ gpus \in DeviceLists
    /\ pc = "cell5_banner"
    /\ stdout = <<>>
    /\ devices_iter = <<>>
    /\ my_instance = <<>>
    /\ calls = [is_available |-> 0, list_devices |-> 0, select_device |-> 0]

(* Cell 5 *)

\* the banner statements left out
PrintBanner_Skipped ==
    /\ pc = "cell5_banner"
    /\ pc' = "cell5_test"
    /\ UNCHANGED <<node, is_available, gpus, stdout, devices_iter, my_instance, calls>>

PrintBanner ==
    /\ pc = "cell5_banner"
    /\ stdout' = stdout \o Banner(node)
    /\ pc' = "cell5_test"
    /\ UNCHANGED <<node, is_available, gpus, devices_iter, my_instance, calls>>

\* if cuda.is_available(): ... for device in cuda.list_devices():
TestAvailableTrue ==
    /\ pc = "cell5_test"
    /\ is_available
    /\ calls' = [calls EXCEPT !.is_available = @ + 1, !.list_devices = @ + 1]
    /\ devices_iter' = gpus
    /\ pc' = "cell5_loop"
    /\ UNCHANGED <<node, is_available, gpus, stdout, my_instance>>

\* the devices enumerated although is_available() answered false
TestAvailableFalse_ListsDevices ==
    /\ pc = "cell5_test"
    /\ ~is_available
    /\ calls' = [calls EXCEPT !.is_available = @ + 1, !.list_devices = @ + 1]
    /\ devices_iter' = gpus
    /\ pc' = "cell5_loop"
    /\ UNCHANGED <<node, is_available, gpus, stdout, my_instance>>

\* if cuda.is_available(): ... else:
TestAvailableFalse ==
    /\ pc = "cell5_test"
    /\ ~is_available
    /\ calls' = [calls EXCEPT !.is_available = @ + 1]
    /\ pc' = "cell5_else"
    /\ UNCHANGED <<node, is_available, gpus, stdout, devices_iter, my_instance>>

\* the list visited from its end
PrintDevice_Reversed ==
    /\ pc = "cell5_loop"
    /\ devices_iter # <<>>
    /\ stdout' = Append(stdout, DeviceLine(devices_iter[Len(devices_iter)]))
    /\ devices_iter' = SubSeq(devices_iter, 1, Len(devices_iter) - 1)
    /\ UNCHANGED <<node, is_available, gpus, pc, my_instance, calls>>

\* one iteration of the for loop; when device.name.decode() raises, nothing
\* is printed and the exception ends the cell
PrintDevice ==
    /\ pc = "cell5_loop"
    /\ devices_iter # <<>>
    /\ devices_iter' = Tail(devices_iter)
    /\ IF decode(Head(devices_iter).name).raised
       THEN pc' = "error" /\ stdout' = stdout
       ELSE pc' = pc /\ stdout' = Append(stdout, DeviceLine(Head(devices_iter)))
    /\ UNCHANGED <<node, is_available, gpus, my_instance, calls>>

\* the iterator is exhausted: the cell ends
EndLoop ==
    /\ pc = "cell5_loop"
    /\ devices_iter = <<>>
    /\ pc' = "cell7_select"
    /\ UNCHANGED <<node, is_available, gpus, stdout, devices_iter, my_instance, calls>>

\* the message printed twice
PrintNoDevice_Twice ==
    /\ pc = "cell5_else"
    /\ stdout' = stdout \o <<NoDeviceLine, NoDeviceLine>>
    /\ pc' = "cell7_select"
    /\ UNCHANGED <<node, is_available, gpus, devices_iter, my_instance, calls>>

PrintNoDevice ==
    /\ pc = "cell5_else"
    /\ stdout' = Append(stdout, NoDeviceLine)
    /\ pc' = "cell7_select"
    /\ UNCHANGED <<node, is_available, gpus, devices_iter, my_instance, calls>>

(* Cell 7 *)

\* the last device selected instead of device 0
SelectDeviceReturns_Last ==
    /\ pc = "cell7_select"
    /\ DeviceIndex < Len(gpus)
    /\ calls' = [calls EXCEPT !.select_device = @ + 1]
    /\ my_instance' = <<gpus[Len(gpus)]>>
    /\ pc' = "cell7_if"
    /\ UNCHANGED <<node, is_available, gpus, stdout, devices_iter>>

\* my_instance = cuda.select_device(0), device 0 exists
SelectDeviceReturns ==
    /\ pc = "cell7_select"
    /\ DeviceIndex < Len(gpus)
    /\ calls' = [calls EXCEPT !.select_device = @ + 1]
    /\ my_instance' = <<gpus[DeviceIndex + 1]>>
    /\ pc' = "cell7_if"
    /\ UNCHANGED <<node, is_available, gpus, stdout, devices_iter>>

\* the exception caught and reported as an insufficient device
SelectDeviceRaises_Caught ==
    /\ pc = "cell7_select"
    /\ ~(DeviceIndex < Len(gpus))
    /\ calls' = [calls EXCEPT !.select_device = @ + 1]
    /\ stdout' = Append(stdout, InsufficientLine)
    /\ pc' = "done"
    /\ UNCHANGED <<node, is_available, gpus, devices_iter, my_instance>>

\* my_instance = cuda.select_device(0), the library raises: nothing catches it
SelectDeviceRaises ==
    /\ pc = "cell7_select"
    /\ ~(DeviceIndex < Len(gpus))
    /\ calls' = [calls EXCEPT !.select_device = @ + 1]
    /\ pc' = "error"
    /\ UNCHANGED <<node, is_available, gpus, stdout, devices_iter, my_instance>>

\* the else missing: the second message follows the first
PrintSufficient_FallsThrough ==
    /\ pc = "cell7_if"
    /\ Sufficient(my_instance[1].compute_capability)
    /\ stdout' = stdout \o <<SufficientLine(my_instance[1]), InsufficientLine>>
    /\ pc' = "done"
    /\ UNCHANGED <<node, is_available, gpus, devices_iter, my_instance, calls>>

\* the if branch; when my_instance.name.decode() raises, nothing is printed
\* and the exception ends the cell
PrintSufficient ==
    /\ pc = "cell7_if"
    /\ Sufficient(my_instance[1].compute_capability)
    /\ IF decode(my_instance[1].name).raised
       THEN pc' = "error" /\ stdout' = stdout
       ELSE pc' = "done" /\ stdout' = Append(stdout, SufficientLine(my_instance[1]))
    /\ UNCHANGED <<node, is_available, gpus, devices_iter, my_instance, calls>>

PrintInsufficient ==
    /\ pc = "cell7_if"
    /\ ~Sufficient(my_instance[1].compute_capability)
    /\ stdout' = Append(stdout, InsufficientLine)
    /\ pc' = "done"
    /\ UNCHANGED <<node, is_available, gpus, devices_iter, my_instance, calls>>

Next ==
    \/ PrintBanner
    \/ TestAvailableTrue
    \/ TestAvailableFalse
    \/ PrintDevice
    \/ EndLoop
    \/ PrintNoDevice
    \/ SelectDeviceReturns
    \/ SelectDeviceRaises
    \/ PrintSufficient
    \/ PrintInsufficient

Spec == Init /\ [][Next]_vars

\* the kernel runs a started cell to its end
FairSpec == Spec /\ WF_vars(Next)

----------------------------------------------------------------------------
(* Observations of a run *)

IsDeviceLine(l) == l.cell = AvailabilityCell /\ l.args[1] = DeviceIdLabel
IsNoDeviceLine(l) == l.cell = AvailabilityCell /\ l.args = <<NoDeviceMessage>>
IsSufficientLine(l) ==
    l.cell = CapabilityCell /\ Len(l.args) = 3 /\ l.args[3] = SufficientClose
IsInsufficientLine(l) == l.cell = CapabilityCell /\ l.args = <<InsufficientMessage>>

DeviceLineIdx == { i \in DOMAIN stdout : IsDeviceLine(stdout[i]) }
NoDeviceIdx == { i \in DOMAIN stdout : IsNoDeviceLine(stdout[i]) }
SufficientIdx == { i \in DOMAIN stdout : IsSufficientLine(stdout[i]) }
InsufficientIdx == { i \in DOMAIN stdout : IsInsufficientLine(stdout[i]) }
CapabilityIdx == { i \in DOMAIN stdout : stdout[i].cell = CapabilityCell }

PrintedDevices == SelectSeq(stdout, IsDeviceLine)
PrintedText == [i \in DOMAIN stdout |-> Text(stdout[i].args)]

Cell5Finished == pc \in {"cell7_select", "cell7_if", "done", "error"}
Finished == pc \in {"done", "error"}

\* the names "GeForce GT 710" and "Tesla K40", as text
GeForceGT710 == <<71, 101, 70, 111, 114, 99, 101, 32, 71, 84, 32, 55, 49, 48>>
TeslaK40 == <<84, 101, 115, 108, 97, 32, 75, 52, 48>>

TypeOK ==
    /\ node \in HostNames
    /\ is_available \in BOOLEAN
    /\ gpus \in DeviceLists
    /\ pc \in {"cell5_banner", "cell5_test", "cell5_loop", "cell5_else",
               "cell7_select", "cell7_if", "done", "error"}
    /\ Len(my_instance) <= 1

----------------------------------------------------------------------------
\* C1: once cell 7 has run on a device 0 of capability (major, minor), the
\* "has a sufficient compute capability" message is printed exactly when
\* major >= 2 and minor >= 1, and the "does not have a sufficient compute
\* capability" message exactly for every other tuple.
C1_SufficientIffBothThresholds ==
    pc = "done" =>
        LET major == gpus[1].compute_capability[1]
            minor == gpus[1].compute_capability[2]
        IN  /\ (SufficientIdx # {}) <=> (major >= 2 /\ minor >= 1)
            /\ (InsufficientIdx # {}) <=> ~(major >= 2 /\ minor >= 1)

\* device 0 at the threshold, with the output saved in the notebook (line 130)
C1_Witness ==
    /\ pc = "done"
    /\ gpus[1].compute_capability = <<2, 1>>
    /\ SufficientIdx # {}
    /\ PrintedText[Len(stdout)] =
         \* "The selected device ( GeForce GT 710 ) has a sufficient compute capability"
         <<84, 104, 101, 32, 115, 101, 108, 101, 99, 116, 101, 100, 32, 100,
           101, 118, 105, 99, 101, 32, 40, 32, 71, 101, 70, 111, 114, 99,
           101, 32, 71, 84, 32, 55, 49, 48, 32, 41, 32, 104, 97, 115, 32, 97,
           32, 115, 117, 102, 102, 105, 99, 105, 101, 110, 116, 32, 99, 111,
           109, 112, 117, 116, 101, 32, 99, 97, 112, 97, 98, 105, 108, 105,
           116, 121>>

\* C2: the cell enforces a minimum compute capability of 2.1 in version
\* order: device 0 is reported sufficient exactly when major > 2, or
\* major = 2 and minor >= 1.
C2_SufficientIffVersionAtLeast21 ==
    pc = "done" =>
        LET major == gpus[1].compute_capability[1]
            minor == gpus[1].compute_capability[2]
        IN  (SufficientIdx # {}) <=> (major > 2 \/ (major = 2 /\ minor >= 1))

\* C3 as stated: after cell 5 a "Device ID" line has been printed exactly
\* when is_available() reported true, whatever list_devices() returned.
C3_DeviceLineIffAvailable ==
    Cell5Finished => ((DeviceLineIdx # {}) <=> is_available)

\* C3 as amended: a "Device ID" line is never printed when is_available()
\* reported false, and after cell 5 one has been printed exactly when
\* is_available() reported true and list_devices() returned a device.
C3_DeviceLineIffAvailableAndListed ==
    /\ (DeviceLineIdx # {}) => is_available
    /\ Cell5Finished => ((DeviceLineIdx # {}) <=> (is_available /\ gpus # <<>>))

C3_Witness ==
    /\ Cell5Finished
    /\ is_available
    /\ gpus = <<>>
    /\ calls.list_devices = 1
    /\ DeviceLineIdx = {}

\* C4: the "There doesn't appear to be a CUDA capable device" message is
\* printed exactly once when is_available() reported false and never when it
\* reported true; in the false case list_devices() is not called and no
\* "Device ID" line is printed.
C4_NoDeviceMessageOnceIffUnavailable ==
    /\ Cardinality(NoDeviceIdx) <= 1
    /\ is_available => NoDeviceIdx = {}
    /\ ~is_available => (calls.list_devices = 0 /\ DeviceLineIdx = {})
    /\ (Cell5Finished /\ ~is_available) => Cardinality(NoDeviceIdx) = 1

\* the output saved in the notebook (lines 85-88)
C4_Witness ==
    /\ pc = "cell7_select"
    /\ ~is_available
    /\ PrintedText =
         << \* 56 times "="
            <<61, 61, 61, 61, 61, 61, 61, 61, 61, 61, 61, 61, 61, 61, 61, 61,
              61, 61, 61, 61, 61, 61, 61, 61, 61, 61, 61, 61, 61, 61, 61, 61,
              61, 61, 61, 61, 61, 61, 61, 61, 61, 61, 61, 61, 61, 61, 61, 61,
              61, 61, 61, 61, 61, 61, 61, 61>>,
            \* "This notebook is running on  ridcully"
            <<84, 104, 105, 115, 32, 110, 111, 116, 101, 98, 111, 111, 107, 32,
              105, 115, 32, 114, 117, 110, 110, 105, 110, 103, 32, 111, 110, 32,
              32, 114, 105, 100, 99, 117, 108, 108, 121>>,
            <<61, 61, 61, 61, 61, 61, 61, 61, 61, 61, 61, 61, 61, 61, 61, 61,
              61, 61, 61, 61, 61, 61, 61, 61, 61, 61, 61, 61, 61, 61, 61, 61,
              61, 61, 61, 61, 61, 61, 61, 61, 61, 61, 61, 61, 61, 61, 61, 61,
              61, 61, 61, 61, 61, 61, 61, 61>>,
            \* "There doesn't appear to be a CUDA capable device in this system"
            <<84, 104, 101, 114, 101, 32, 100, 111, 101, 115, 110, 39, 116, 32,
              97, 112, 112, 101, 97, 114, 32, 116, 111, 32, 98, 101, 32, 97, 32,
              67, 85, 68, 65, 32, 99, 97, 112, 97, 98, 108, 101, 32, 100, 101,
              118, 105, 99, 101, 32, 105, 110, 32, 116, 104, 105, 115, 32, 115,
              121, 115, 116, 101, 109>> >>

\* C5: when is_available() reported true, cell 5 prints one "Device ID" line
\* per device of list_devices(), in the order of the list, each with that
\* device's identifier and name: while the loop runs the lines printed are
\* those of the devices already visited, and after the cell there are as many
\* lines as devices.
C5_OneLinePerDeviceInOrder ==
    (is_available /\ (pc = "cell5_loop" \/ Cell5Finished)) =>
        /\ Len(PrintedDevices) + Len(devices_iter) = Len(gpus)
        /\ Cell5Finished => Len(PrintedDevices) = Len(gpus)
        /\ \A i \in DOMAIN PrintedDevices :
              \* "Device ID :  <i - 1>  :  <name>", devices 0 to 9
              /\ gpus[i].name \in {GeForceGT710, TeslaK40}
              /\ Text(PrintedDevices[i].args) =
                    <<68, 101, 118, 105, 99, 101, 32, 73, 68, 32, 58, 32, 32>>
                        \o <<48 + (i - 1)>> \o <<32, 32, 58, 32, 32>>
                        \o (IF gpus[i].name = GeForceGT710
                            THEN GeForceGT710 ELSE TeslaK40)

C5_Witness ==
    /\ Cell5Finished
    /\ is_available
    /\ Len(gpus) = 2
    /\ gpus[1].name # gpus[2].name
    /\ Len(PrintedDevices) = 2

\* C6: whenever select_device(0) succeeds, cell 7 prints exactly one of its
\* two messages, never both and never neither, after a single select_device
\* call that bound device 0 and no other device.
C6_ExactlyOneCapabilityMessage ==
    /\ calls.select_device <= 1
    /\ Cardinality(CapabilityIdx) <= 1
    /\ my_instance # <<>> => my_instance = <<gpus[1]>>
    /\ pc = "done" =>
          /\ calls.select_device = 1
          /\ Cardinality(SufficientIdx) + Cardinality(InsufficientIdx) = 1
          /\ Cardinality(CapabilityIdx) = 1

C6_Witness ==
    /\ pc = "done"
    /\ calls.select_device = 1
    /\ Cardinality(InsufficientIdx) = 1
    /\ SufficientIdx = {}

\* C7: a failure of select_device(0) is not caught: the step on which it
\* raises leaves the run in the error state with the output of cell 5 as it
\* was, and in the error state no capability message has been printed, no
\* device is bound and nothing more is executed.
C7_SelectFailurePropagates ==
    /\ []((pc = "error" /\ gpus = <<>>) =>
            /\ CapabilityIdx = {}
            /\ my_instance = <<>>
            /\ ~ENABLED Next)
    /\ [][(pc = "cell7_select" /\ gpus = <<>>) =>
            (pc' = "error" /\ stdout' = stdout)]_vars

\* the failure right after the no-device message
C7_Witness ==
    /\ pc = "error"
    /\ ~is_available
    /\ Cardinality(NoDeviceIdx) = 1
    /\ stdout[Len(stdout)] = NoDeviceLine

\* C8 (safety part): the three banner lines are the first output, every
\* line of cell 5 precedes every line of cell 7, no library function is
\* called twice, and an error outcome only arises from select_device.
C8_Order ==
    /\ stdout # <<>> =>
          /\ Len(stdout) >= 3
          /\ Text(stdout[1].args) = Rule
          \* "This notebook is running on  <node>"
          /\ Text(stdout[2].args) =
                <<84, 104, 105, 115, 32, 110, 111, 116, 101, 98, 111, 111, 107, 32,
                  105, 115, 32, 114, 117, 110, 110, 105, 110, 103, 32, 111, 110, 32,
                  32>>
                  \o node
          /\ Text(stdout[3].args) = Rule
    /\ \A i \in DOMAIN stdout :
          (i > 3 /\ stdout[i].cell = AvailabilityCell) =>
              (IsDeviceLine(stdout[i]) \/ IsNoDeviceLine(stdout[i]))
    /\ \A i, j \in DOMAIN stdout :
          (stdout[i].cell = AvailabilityCell /\ stdout[j].cell = CapabilityCell)
              => i < j
    /\ \A f \in DOMAIN calls : calls[f] <= 1
    /\ Cell5Finished => calls.is_available = 1
    /\ pc = "error" => calls.select_device = 1

\* C8: one execution runs the cells top to bottom once, in the order above,
\* and for every answer of is_available() and every device list the
\* availability cell reaches its end, from where cell 7 starts.
C8_TopToBottomOnce ==
    /\ []C8_Order
    /\ <>(pc = "cell7_select")
    /\ <>Finished

C8_Witness ==
    /\ pc = "done"
    /\ is_available
    /\ Len(stdout) = 3 + Len(gpus) + 1
    /\ Len(gpus) = 2

\* what cell 7 prints on a system whose driver exposes the devices ds
CapabilityOutcome(ds) ==
    IF ds = <<>> THEN "raised"
    ELSE IF Sufficient(ds[1].compute_capability) THEN "sufficient"
    ELSE "insufficient"

ObservedOutcome ==
    IF pc = "error" THEN "raised"
    ELSE IF SufficientIdx # {} THEN "sufficient"
    ELSE IF InsufficientIdx # {} THEN "insufficient"
    ELSE "nothing"

\* device 0's capability tuple on a system, <<>> when there is no device 0
Device0Capability(ds) ==
    IF ds = <<>> THEN <<>> ELSE ds[1].compute_capability

\* device 0's tuple and the outcome of cell 7, over all the systems: any
\* number of devices, any device 0, any other devices
OutcomesByDevice0 ==
    { <<Device0Capability(ds), CapabilityOutcome(ds)>> : ds \in DeviceLists }

\* C9: cell 7 calls select_device(0) whatever cell 5 did, and which message
\* it prints depends on device 0's capability tuple alone: the outcome of a
\* finished run is the one outcome of all the systems that agree with it on
\* device 0's tuple, whatever is_available() answered, however many devices
\* were listed and whatever the other devices are.
C9_CapabilityMessageDependsOnDevice0Only ==
    Finished =>
        /\ calls.select_device = 1
        /\ { p[2] : p \in { q \in OutcomesByDevice0 :
                                q[1] = Device0Capability(gpus) } }
              = {ObservedOutcome}

\* device 0 is insufficient, a later device is sufficient, nothing available
C9_Witness ==
    /\ pc = "done"
    /\ ~is_available
    /\ Len(gpus) = 2
    /\ ~Sufficient(gpus[1].compute_capability)
    /\ Sufficient(gpus[2].compute_capability)
    /\ InsufficientIdx # {}

====
